---- MODULE Spec2Model ----
(***************************************************************************)
(* Model of the pdf-parser-service request handlers (src/app.py):          *)
(*   POST /scrape  -> scrape() -> scrape_with_playwright()                 *)
(*   POST /parse   -> parse()                                              *)
(* Every await / blocking call of a handler is one step of the worker that *)
(* serves the request; calls into the browser, the network and the PDF     *)
(* libraries are external and either succeed or raise.  The names that     *)
(* app.py uses without binding them itself (`playwright` at line 253) are  *)
(* taken to be bound by the deployment, so a launch can succeed.           *)
(***************************************************************************)
EXTENDS Integers, Sequences, FiniteSets, TLC

(* ---- bounds ---- *)
NumWorkers == 2
MaxSentences == 2
MaxPages == 2
MaxTokens == 4

Workers == 1..NumWorkers

(* ---- abstract inputs ---- *)
\* A sentence of the text selected by the extractor's strategies: its length
\* in characters and the policy term (if any) its lower-cased text starts with.
SentenceLens == {8, 150}
SentenceTerms == {"none", "cookie", "gdpr"}
Sentences == [len : SentenceLens, term : SentenceTerms]

RECURSIVE SeqsUpTo(_, _)
SeqsUpTo(S, n) ==
  IF n = 0 THEN {<<>>}
  ELSE LET prev == SeqsUpTo(S, n - 1)
       IN prev \cup {Append(q, s) : q \in {p \in prev : Len(p) = n - 1}, s \in S}

\* The rendered documents a page can produce, as the sentence list of the
\* text that the content strategies select from it.
HtmlInputs == SeqsUpTo(Sentences, MaxSentences)

\* document.body.innerHTML.length, as sampled by the stabilization loop
BodySizes == {0, 100}

max_stabilize_checks == 5

\* Lengths of the text returned by the in-page fallback extraction.
ExtractedLens == {0, 150, 200, 201}

\* Navigation outcomes of page.goto: it raises, returns no response object,
\* or returns a response with an HTTP status.
GotoOutcomes == {"raise", "none", "200", "404", "500"}

StatusOf(o) == CASE o = "200" -> 200 [] o = "301" -> 301
                 [] o = "404" -> 404 [] o = "500" -> 500 [] OTHER -> 0

(* ---- state ---- *)
VARIABLES
  active,      \* the workers of the server that serve /scrape requests
  pc,          \* position of each worker's /scrape request
  body,        \* what the request body was: "not_json", "no_url", "ok"
  robots,      \* outcome of the permission check for the request
  browser,     \* "none", "open", "closed": the local variable `browser`
  result,      \* what scrape_with_playwright returns: "none", "data", "error"
  cause,       \* the step that produced an {error} result
  status,      \* HTTP status of the response (0: not answered)
  navStatus,   \* response.status of the navigation
  first,       \* content of the first extraction pass
  extracted,   \* length of extracted_content of the fallback pass (-1: none)
  content,     \* cleaned_data["content"] that is returned
  fallbacks,   \* number of fallback passes the request has started
  shot,        \* the request has written /tmp/cookie_page.png
  cookie_page, \* whose screenshot /tmp/cookie_page.png holds (0: no file)
  samples,     \* the body sizes the stabilization loop has sampled
  previous_content_size, \* the loop's previous_content_size
  stable_count,          \* the loop's stable_count
  ppc,         \* position of the /parse request
  upload,      \* the uploaded file: "missing", "pdf", "not_pdf"
  space_id,    \* the space_id form field is present
  temp_dir,    \* "none", "exists", "removed"
  presult,     \* the result dict of parse(), as the set of its keys
  pstatus,     \* HTTP status of the /parse response
  extractions, \* extraction / upload steps the /parse request has started
  pages,       \* number of pages of the uploaded document
  page,        \* pages that parse_pdf_text has processed
  alarm,       \* seconds of the pending SIGALRM (0: none pending)
  chunks,      \* number of 5-page chunks of the document in image extraction
  chunk,       \* chunks that extract_images_from_pdf has processed
  images,      \* image_paths is not empty
  xpc,         \* position of a clean_html_response call studied on its own
  xdoc,        \* the document given to clean_html_response
  xrecord,     \* the record clean_html_response returns
  xdegraded,   \* the verdict of the orchestrator's quality check on it
  tpc,         \* position of the text clean-up of clean_html_response
  ttext,       \* content_text as selected by the strategies, in tokens
  tcontent     \* content_text as the clean-up has transformed it so far

lvars == <<samples, previous_content_size, stable_count>>
svars == <<active, pc, body, robots, browser, result, cause, status, navStatus, first,
           extracted, content, fallbacks, shot, cookie_page,
           samples, previous_content_size, stable_count>>
pvars == <<ppc, upload, space_id, temp_dir, presult, pstatus, extractions,
           pages, page, alarm, chunks, chunk, images>>
xvars == <<xpc, xdoc, xrecord, xdegraded, tpc, ttext, tcontent>>
vars == <<active, pc, body, robots, browser, result, cause, status, navStatus, first,
          extracted, content, fallbacks, shot, cookie_page,
          samples, previous_content_size, stable_count,
          ppc, upload, space_id, temp_dir, presult, pstatus, extractions,
          pages, page, alarm, chunks, chunk, images, xpc, xdoc, xrecord, xdegraded, tpc, ttext, tcontent>>

NoContent == [len |-> 0, cookie100 |-> FALSE, pass |-> 0]

(* ---- clean_html_response: sentence filter and the returned content ---- *)
RECURSIVE JoinLen(_)
\* len(' '.join(ss))
JoinLen(ss) ==
  IF ss = <<>> THEN 0
  ELSE IF Len(ss) = 1 THEN ss[1].len
  ELSE ss[1].len + 1 + JoinLen(Tail(ss))

\* index of the first character of sentence i in ' '.join(ss)
Offset(ss, i) == IF i = 1 THEN 0 ELSE JoinLen(SubSeq(ss, 1, i - 1)) + 1

\* "cookie" in content_text.lower()[:100]
Cookie100(ss) ==
  \E i \in 1..Len(ss) : ss[i].term = "cookie" /\ Offset(ss, i) + 6 <= 100

KeepSentence(s) == s.len > 10 /\ s.term = "none"

FilterSentences(ss) == SelectSeq(ss, KeepSentence)

clean_html_response(html) ==
  LET kept == IF html # <<>> THEN FilterSentences(html) ELSE html
  IN [len |-> JoinLen(kept), cookie100 |-> Cookie100(kept), pass |-> 1]

\* the quality check of the orchestrator (Python: `a and b or c`)
Degraded(c) == (c.len # 0 /\ c.len < 200) \/ c.cookie100

\* a replacement test that is off by one
Replaces_AtLeast(n) == n # 0 /\ n >= 200

\* the fallback result replaces the first-pass content
Replaces(n) == n # 0 /\ n > 200

(* ---- clean_html_response: title and description ---- *)
\* Python values: a str, or None
Str(v) == [type |-> "str", value |-> v]
PyNone == [type |-> "NoneType", value |-> ""]

\* What is left of a document after the removal passes: its first h1 (absent,
\* with text, or empty), its title element (absent, one text node, empty, or
\* with nested markup), its description meta tags (absent, with a content
\* attribute, or without one) and the text that the strategies select.
Docs == [h1 : {"absent", "text", "empty"},
         title : {"absent", "text", "empty", "nested"},
         meta_name : {"absent", "content", "no_content"},
         meta_og : {"absent", "content", "no_content"},
         text : HtmlInputs]

NoDoc == [h1 |-> "absent", title |-> "absent", meta_name |-> "absent",
          meta_og |-> "absent", text |-> <<>>]

\* Tag.string: the single text child of the tag, None when the tag has no
\* child or more than one
TagString(t) ==
  CASE t = "text" -> Str("title text")
    [] t = "empty" -> PyNone
    [] t = "nested" -> PyNone

\* title: the stripped text of the first h1, else soup.title.string, else ""
ExtractTitle(doc) ==
  IF doc.h1 # "absent"
  THEN Str(IF doc.h1 = "text" THEN "h1 text" ELSE "")
  ELSE IF doc.title # "absent" THEN TagString(doc.title)
  ELSE Str("")

\* description: the content of the first of the two meta tags that exists
ExtractDescription(doc) ==
  LET meta_tag == IF doc.meta_name # "absent" THEN doc.meta_name ELSE doc.meta_og
  IN IF meta_tag = "content" THEN Str("description") ELSE Str("")

\* the record that clean_html_response returns
CleanedRecord(doc) ==
  [title |-> ExtractTitle(doc),
   description |-> ExtractDescription(doc),
   content |-> clean_html_response(doc.text)]

NoRecord == [title |-> Str(""), description |-> Str(""), content |-> NoContent]

(* ---- clean_html_response: the clean-up of content_text, token by token ---- *)
\* content_text as a sequence of tokens: a 12-character run of letters
\* without any part of a term ("word"), such a run ending in "coo" or
\* starting with "kie", the upper-case term "COOKIE", the term "gdpr", one
\* whitespace character, one sentence-ending character, and the marker word
\* of the property description.
Tokens == {"word", "xcoo", "kiex", "COOKIE", "gdpr", " ", ".",
           "Kontorsfastighet"}

Texts == SeqsUpTo(Tokens, MaxTokens)

TokenLen(t) ==
  CASE t \in {"word", "xcoo", "kiex"} -> 12
    [] t \in {"COOKIE", "cookie"} -> 6
    [] t = "gdpr" -> 4
    [] t \in {"Kontorsfastighet", "kontorsfastighet"} -> 16
    [] OTHER -> 1

RECURSIVE TextLen(_)
\* len(text)
TextLen(text) ==
  IF text = <<>> THEN 0 ELSE TokenLen(Head(text)) + TextLen(Tail(text))

\* str.lower()
Lower(text) ==
  [i \in 1..Len(text) |->
     CASE text[i] = "COOKIE" -> "cookie"
       [] text[i] = "Kontorsfastighet" -> "kontorsfastighet"
       [] OTHER -> text[i]]

\* "cookie" in text (text lower-cased)
HasCookie(text) ==
  \E i \in 1..Len(text) :
    \/ text[i] = "cookie"
    \/ i < Len(text) /\ text[i] = "xcoo" /\ text[i + 1] = "kiex"

\* any(term in text for term in policy_terms) (text lower-cased)
HasTerm(text) == HasCookie(text) \/ \E i \in 1..Len(text) : text[i] = "gdpr"

\* a term test that forgets to lower-case the sentence
TermOf_CaseSensitive(text) ==
  IF HasCookie(text) THEN "cookie"
  ELSE IF HasTerm(text) THEN "gdpr" ELSE "none"

\* the policy term that `term in sentence.lower()` finds in a sentence
TermOf(text) ==
  IF HasCookie(Lower(text)) THEN "cookie"
  ELSE IF HasTerm(Lower(text)) THEN "gdpr" ELSE "none"

\* a sentence as the filter sees it: its length and the term it contains
SentenceOf(text) == [len |-> TextLen(text), term |-> TermOf(text)]

\* first index from i on that holds no whitespace
NextNonSpace(text, i) ==
  LET rest == {j \in i..Len(text) : text[j] # " "}
  IN IF rest = {} THEN Len(text) + 1
     ELSE CHOOSE j \in rest : \A k \in rest : j <= k

RECURSIVE SplitFrom(_, _, _)
SplitFrom(text, i, cur) ==
  IF i > Len(text) THEN <<cur>>
  ELSE IF text[i] = " " /\ i > 1 /\ text[i - 1] = "."
       THEN <<cur>> \o SplitFrom(text, NextNonSpace(text, i), <<>>)
       ELSE SplitFrom(text, i + 1, Append(cur, text[i]))

\* re.split(r'(?<=[.!?])\s+', content_text)
SplitSentences(text) == SplitFrom(text, 1, <<>>)

RECURSIVE JoinSentences(_)
\* ' '.join(clean_sentences)
JoinSentences(ss) ==
  IF ss = <<>> THEN <<>>
  ELSE IF Len(ss) = 1 THEN ss[1]
  ELSE ss[1] \o <<" ">> \o JoinSentences(Tail(ss))

KeepText(text) == KeepSentence(SentenceOf(text))

\* the sentence filter, applied when content_text is not empty
FilterText(text) ==
  IF text # <<>>
  THEN JoinSentences(SelectSeq(SplitSentences(text), KeepText))
  ELSE text

\* keep the text from the first "Kontorsfastighet" on
TruncateAtProperty(text) ==
  LET at == {i \in 1..Len(text) : text[i] = "Kontorsfastighet"}
  IN IF at = {} THEN text
     ELSE SubSeq(text, CHOOSE i \in at : \A k \in at : i <= k, Len(text))

RECURSIVE Collapse(_, _)
\* re.sub(r'\s+', ' ', text), from index i on
Collapse(text, i) ==
  IF i > Len(text) THEN <<>>
  ELSE IF text[i] = " " /\ i > 1 /\ text[i - 1] = " "
       THEN Collapse(text, i + 1)
       ELSE <<text[i]>> \o Collapse(text, i + 1)

\* str.strip() of a text whose whitespace runs are single characters
Strip(text) ==
  LET a == IF text # <<>> /\ Head(text) = " " THEN Tail(text) ELSE text
  IN IF a # <<>> /\ a[Len(a)] = " " THEN SubSeq(a, 1, Len(a) - 1) ELSE a

\* re.sub(r'\s+', ' ', content_text).strip()
NormalizeWhitespace(text) == Strip(Collapse(text, 1))

\* offset of token i in the text
TokenOffset(text, i) == TextLen(SubSeq(text, 1, i - 1))

\* "cookie" in content_text.lower()[:100]
CookieInFirst100(text) ==
  LET low == Lower(text) IN
  \E i \in 1..Len(low) :
    \/ low[i] = "cookie" /\ TokenOffset(low, i) + 6 <= 100
    \/ i < Len(low) /\ low[i] = "xcoo" /\ low[i + 1] = "kiex"
         /\ TokenOffset(low, i) + 15 <= 100

(* ---- initial state ---- *)
\* the state of a freshly started server, whatever its number of workers
Fresh ==
  /\ pc = [r \in Workers |-> "idle"]
  /\ body = [r \in Workers |-> "none"]
  /\ robots = [r \in Workers |-> "none"]
  /\ browser = [r \in Workers |-> "none"]
  /\ result = [r \in Workers |-> "none"]
  /\ cause = [r \in Workers |-> "none"]
  /\ status = [r \in Workers |-> 0]
  /\ navStatus = [r \in Workers |-> 0]
  /\ first = [r \in Workers |-> NoContent]
  /\ extracted = [r \in Workers |-> -1]
  /\ content = [r \in Workers |-> NoContent]
  /\ fallbacks = [r \in Workers |-> 0]
  /\ shot = [r \in Workers |-> FALSE]
  /\ cookie_page = 0
  /\ samples = [r \in Workers |-> <<>>]
  /\ previous_content_size = [r \in Workers |-> 0]
  /\ stable_count = [r \in Workers |-> 0]
  /\ ppc = "idle"
  /\ upload = "missing"
  /\ space_id = FALSE
  /\ temp_dir = "none"
  /\ presult = {}
  /\ pstatus = 0
  /\ extractions = {}
  /\ pages = 0
  /\ page = 0
  /\ alarm = 0
  /\ chunks = 0
  /\ chunk = 0
  /\ images = FALSE

\* no call of the extractor is studied on its own
NoExtraction ==
  /\ xpc = "none"
  /\ xdoc = NoDoc
  /\ xrecord = NoRecord
  /\ xdegraded = FALSE
  /\ tpc = "none"
  /\ ttext = <<>>
  /\ tcontent = <<>>

\* a server that handles one request at a time
Init == active = {1} /\ Fresh /\ NoExtraction

\* a server whose workers handle requests concurrently
InitConcurrent == active = Workers /\ Fresh /\ NoExtraction

(* ---- POST /scrape ---- *)
\* previous_content_size = 0, stable_count = 0 and no sample taken
ResetLoop(r) ==
  /\ samples' = [samples EXCEPT ![r] = <<>>]
  /\ previous_content_size' = [previous_content_size EXCEPT ![r] = 0]
  /\ stable_count' = [stable_count EXCEPT ![r] = 0]

\* scrape(): a worker takes a new request and validates its body.
ScrapeValidate(r) ==
  /\ r \in active
  /\ pc[r] \in {"idle", "done"}
  /\ \E b \in {"not_json", "no_url", "ok"} :
       /\ body' = [body EXCEPT ![r] = b]
       /\ IF b = "ok"
          THEN /\ pc' = [pc EXCEPT ![r] = "robots"]
               /\ status' = [status EXCEPT ![r] = 0]
          ELSE /\ pc' = [pc EXCEPT ![r] = "done"]
               /\ status' = [status EXCEPT ![r] = 400]
  /\ robots' = [robots EXCEPT ![r] = "none"]
  /\ browser' = [browser EXCEPT ![r] = "none"]
  /\ result' = [result EXCEPT ![r] = "none"]
  /\ cause' = [cause EXCEPT ![r] = "none"]
  /\ navStatus' = [navStatus EXCEPT ![r] = 0]
  /\ first' = [first EXCEPT ![r] = NoContent]
  /\ extracted' = [extracted EXCEPT ![r] = -1]
  /\ content' = [content EXCEPT ![r] = NoContent]
  /\ fallbacks' = [fallbacks EXCEPT ![r] = 0]
  /\ shot' = [shot EXCEPT ![r] = FALSE]
  /\ ResetLoop(r)
  /\ UNCHANGED <<active, cookie_page, pvars, xvars>>

\* is_scraping_allowed(url): can_fetch answers, rp.read() raises inside the
\* try (-> False), or urlparse raises before the try (the exception escapes).
is_scraping_allowed(o) ==
  CASE o = "allowed" -> "True"
    [] o = "disallowed" -> "False"
    [] o = "fetch_failed" -> "False"
    [] o = "raised" -> "raise"

\* a handler that ignores the answer of the permission check
RobotsVerdict_Ignored(a) == "proceed"

\* scrape(): what the handler does with the answer of the permission check
RobotsVerdict(a) ==
  CASE a = "True" -> "proceed"
    [] a = "False" -> "403"
    [] a = "raise" -> "proceed"

ScrapeRobots(r) ==
  /\ pc[r] = "robots"
  /\ \E o \in {"allowed", "disallowed", "fetch_failed", "raised"} :
       /\ robots' = [robots EXCEPT ![r] = o]
       /\ IF RobotsVerdict(is_scraping_allowed(o)) = "403"
          THEN /\ pc' = [pc EXCEPT ![r] = "done"]
               /\ status' = [status EXCEPT ![r] = 403]
          ELSE /\ pc' = [pc EXCEPT ![r] = "loop"]
               /\ UNCHANGED status
  /\ UNCHANGED <<active, body, browser, result, cause, navStatus, first, extracted,
                 content, fallbacks, shot, cookie_page, pvars, xvars, lvars>>

\* scrape(): obtain an event loop and start the coroutine; a failure here is
\* caught by the handler's own except and answered with 500.
ScrapeLoop(r) ==
  /\ pc[r] = "loop"
  /\ \/ /\ pc' = [pc EXCEPT ![r] = "launch"]
        /\ UNCHANGED status
     \/ /\ pc' = [pc EXCEPT ![r] = "done"]
        /\ status' = [status EXCEPT ![r] = 500]
  /\ UNCHANGED <<active, body, robots, browser, result, cause, navStatus, first,
                 extracted, content, fallbacks, shot, cookie_page, pvars, xvars, lvars>>

\* `except Exception` of scrape_with_playwright: the result is {error} and
\* control passes to the finally block.
Fail(r, c) ==
  /\ result' = [result EXCEPT ![r] = "error"]
  /\ cause' = [cause EXCEPT ![r] = c]
  /\ pc' = [pc EXCEPT ![r] = "finally"]

\* find_chromium_executable() and playwright.chromium.launch()
Launch(r) ==
  /\ pc[r] = "launch"
  /\ \/ /\ browser' = [browser EXCEPT ![r] = "open"]
        /\ pc' = [pc EXCEPT ![r] = "setup"]
        /\ UNCHANGED <<result, cause>>
     \/ /\ Fail(r, "launch")
        /\ UNCHANGED browser
  /\ UNCHANGED <<active, body, robots, status, navStatus, first, extracted, content,
                 fallbacks, shot, cookie_page, pvars, xvars, lvars>>

\* new_context, add_cookies, new_page, set_default_timeout
Setup(r) ==
  /\ pc[r] = "setup"
  /\ \/ /\ pc' = [pc EXCEPT ![r] = "goto"]
        /\ UNCHANGED <<result, cause>>
     \/ Fail(r, "setup")
  /\ UNCHANGED <<active, body, robots, browser, status, navStatus, first, extracted,
                 content, fallbacks, shot, cookie_page, pvars, xvars, lvars>>

\* page.goto(url) and the two early returns
Goto(r) ==
  /\ pc[r] = "goto"
  /\ \E o \in GotoOutcomes :
       IF o = "raise" THEN Fail(r, "goto") /\ UNCHANGED navStatus
       ELSE IF o = "none" THEN Fail(r, "no_response") /\ UNCHANGED navStatus
       ELSE /\ navStatus' = [navStatus EXCEPT ![r] = StatusOf(o)]
            /\ IF StatusOf(o) >= 400
               THEN Fail(r, "http_status")
               ELSE /\ pc' = [pc EXCEPT ![r] = "netidle"]
                    /\ UNCHANGED <<result, cause>>
  /\ UNCHANGED <<active, body, robots, browser, status, first, extracted, content,
                 fallbacks, shot, cookie_page, pvars, xvars, lvars>>

\* page.wait_for_load_state("networkidle"): returns, or raises on timeout
NetworkIdle(r) ==
  /\ pc[r] = "netidle"
  /\ \/ /\ pc' = [pc EXCEPT ![r] = "consent"]
        /\ UNCHANGED <<result, cause>>
     \/ Fail(r, "netidle")
  /\ UNCHANGED <<active, body, robots, browser, status, navStatus, first, extracted,
                 content, fallbacks, shot, cookie_page, pvars, xvars, lvars>>

\* the consent-button loop (every failure inside it is swallowed), the
\* settle wait that follows it and the initialisation of the sampling loop
Consent(r) ==
  /\ pc[r] = "consent"
  /\ \/ /\ pc' = [pc EXCEPT ![r] = "stabilize"]
        /\ UNCHANGED <<result, cause>>
     \/ Fail(r, "consent")
  /\ ResetLoop(r)
  /\ UNCHANGED <<active, body, robots, browser, status, navStatus, first, extracted,
                 content, fallbacks, shot, cookie_page, pvars, xvars>>

Abs(n) == IF n < 0 THEN -n ELSE n

\* abs(content_size - previous_content_size) < 100
IsStable(content_size, previous) == Abs(content_size - previous) < 100

\* a break test that is satisfied by a single stable check
StableEnough_One(count) == count >= 1

\* `if stable_count >= 2: break`
StableEnough(count) == count >= 2

\* one iteration of the stabilization loop: sample the body size, compare it
\* with the previous one, break or wait a second; the loop ends after
\* max_stabilize_checks iterations
Stabilize(r) ==
  /\ pc[r] = "stabilize"
  /\ \/ \E content_size \in BodySizes :
          LET stable == IsStable(content_size, previous_content_size[r])
              count == IF stable THEN stable_count[r] + 1 ELSE 0
              taken == Append(samples[r], content_size)
          IN /\ samples' = [samples EXCEPT ![r] = taken]
             /\ stable_count' = [stable_count EXCEPT ![r] = count]
             /\ IF stable /\ StableEnough(count)
                THEN /\ pc' = [pc EXCEPT ![r] = "capture"]
                     /\ UNCHANGED previous_content_size
                ELSE /\ previous_content_size' =
                          [previous_content_size EXCEPT ![r] = content_size]
                     /\ pc' = [pc EXCEPT ![r] =
                          IF Len(taken) = max_stabilize_checks
                          THEN "capture" ELSE "stabilize"]
             /\ UNCHANGED <<result, cause>>
     \/ /\ Fail(r, "stabilize")
        /\ UNCHANGED lvars
  /\ UNCHANGED <<active, body, robots, browser, status, navStatus, first, extracted,
                 content, fallbacks, shot, cookie_page, pvars, xvars>>

\* scroll, page.content(), clean_html_response and the quality check; the
\* locals of the sampling loop are not used from here on
Capture(r) ==
  /\ pc[r] = "capture"
  /\ ResetLoop(r)
  /\ \/ \E html \in HtmlInputs :
          LET c == clean_html_response(html) IN
          /\ first' = [first EXCEPT ![r] = c]
          /\ content' = [content EXCEPT ![r] = c]
          /\ pc' = [pc EXCEPT ![r] = IF Degraded(c) THEN "screenshot" ELSE "finish"]
          /\ UNCHANGED <<result, cause>>
     \/ /\ Fail(r, "capture")
        /\ UNCHANGED <<first, content>>
  /\ UNCHANGED <<active, body, robots, browser, status, navStatus, extracted,
                 fallbacks, shot, cookie_page, pvars, xvars>>

\* fallback pass, part 1: page.screenshot(path="/tmp/cookie_page.png")
Screenshot(r) ==
  /\ pc[r] = "screenshot"
  /\ fallbacks' = [fallbacks EXCEPT ![r] = @ + 1]
  /\ \/ /\ cookie_page' = r
        /\ shot' = [shot EXCEPT ![r] = TRUE]
        /\ pc' = [pc EXCEPT ![r] = "extract"]
        /\ UNCHANGED <<result, cause>>
     \/ /\ Fail(r, "screenshot")
        /\ UNCHANGED <<cookie_page, shot>>
  /\ UNCHANGED <<active, body, robots, browser, status, navStatus, first, extracted,
                 content, pvars, xvars, lvars>>

\* fallback pass, part 2: the in-page extraction and the replacement test
Extract(r) ==
  /\ pc[r] = "extract"
  /\ \/ \E n \in ExtractedLens :
          /\ extracted' = [extracted EXCEPT ![r] = n]
          /\ content' = [content EXCEPT ![r] =
                 IF Replaces(n) THEN [len |-> n, cookie100 |-> FALSE, pass |-> 2]
                 ELSE @]
          /\ pc' = [pc EXCEPT ![r] = "finish"]
          /\ UNCHANGED <<result, cause>>
     \/ /\ Fail(r, "extract")
        /\ UNCHANGED <<extracted, content>>
  /\ UNCHANGED <<active, body, robots, browser, status, navStatus, first, fallbacks,
                 shot, cookie_page, pvars, xvars, lvars>>

\* attach the metadata and `return cleaned_data`
Finish(r) ==
  /\ pc[r] = "finish"
  /\ result' = [result EXCEPT ![r] = "data"]
  /\ pc' = [pc EXCEPT ![r] = "finally"]
  /\ UNCHANGED <<active, body, robots, browser, cause, status, navStatus, first,
                 extracted, content, fallbacks, shot, cookie_page, pvars, xvars, lvars>>

\* a finally block that closes the browser on the success path only
Finally_LeakOnError(r) ==
  /\ pc[r] = "finally"
  /\ browser' = [browser EXCEPT ![r] =
        IF @ = "open" /\ result[r] = "data" THEN "closed" ELSE @]
  /\ pc' = [pc EXCEPT ![r] = "returned"]
  /\ UNCHANGED <<active, body, robots, result, cause, status, navStatus, first,
                 extracted, content, fallbacks, shot, cookie_page, pvars, xvars, lvars>>

\* finally: `if browser: await browser.close()`; the coroutine then returns
Finally(r) ==
  /\ pc[r] = "finally"
  /\ browser' = [browser EXCEPT ![r] = IF @ = "open" THEN "closed" ELSE @]
  /\ pc' = [pc EXCEPT ![r] = "returned"]
  /\ UNCHANGED <<active, body, robots, result, cause, status, navStatus, first,
                 extracted, content, fallbacks, shot, cookie_page, pvars, xvars, lvars>>

\* scrape(): `return jsonify(result)` -- the status is always the default 200
ResponseStatus(res) == 200

ScrapeRespond(r) ==
  /\ pc[r] = "returned"
  /\ status' = [status EXCEPT ![r] = ResponseStatus(result[r])]
  /\ pc' = [pc EXCEPT ![r] = "done"]
  /\ UNCHANGED <<active, body, robots, browser, result, cause, navStatus, first,
                 extracted, content, fallbacks, shot, cookie_page, pvars, xvars, lvars>>

Next ==
  \E r \in Workers :
    \/ ScrapeValidate(r)
    \/ ScrapeRobots(r)
    \/ ScrapeLoop(r)
    \/ Launch(r)
    \/ Setup(r)
    \/ Goto(r)
    \/ NetworkIdle(r)
    \/ Consent(r)
    \/ Stabilize(r)
    \/ Capture(r)
    \/ Screenshot(r)
    \/ Extract(r)
    \/ Finish(r)
    \/ Finally(r)
    \/ ScrapeRespond(r)

Spec == Init /\ [][Next]_vars

SpecConcurrent == InitConcurrent /\ [][Next]_vars

(* ---- POST /parse ---- *)
\* parse(): take a request; answer 400 when the file or space_id is missing,
\* otherwise create the temporary directory of the request
ParseValidate ==
  /\ ppc \in {"idle", "done"}
  /\ \E f \in {"missing", "pdf", "not_pdf"}, sid \in BOOLEAN :
       /\ upload' = f
       /\ space_id' = sid
       /\ IF f = "missing" \/ ~sid
          THEN ppc' = "done" /\ pstatus' = 400 /\ temp_dir' = "none"
          ELSE ppc' = "save" /\ pstatus' = 0 /\ temp_dir' = "exists"
  /\ presult' = {}
  /\ extractions' = {}
  /\ pages' = 0
  /\ page' = 0
  /\ chunks' = 0
  /\ chunk' = 0
  /\ images' = FALSE
  /\ UNCHANGED <<alarm, svars, xvars>>

\* return statements of which the error ones skip the finally block
ParseReturn_NoCleanupOnError(code) ==
  /\ pstatus' = code
  /\ ppc' = IF code = 200 THEN "cleanup" ELSE "done"

\* the return statements of parse(): the status is fixed, the finally block
\* still has to run
ParseReturn(code) ==
  /\ pstatus' = code
  /\ ppc' = "cleanup"

\* with timeout(30): file.save(file_path)
ParseSave ==
  /\ ppc = "save"
  /\ \/ ppc' = "text" /\ UNCHANGED pstatus
     \/ ParseReturn(504)
     \/ ParseReturn(500)
  /\ UNCHANGED <<upload, space_id, temp_dir, presult, extractions, pages, page, alarm,
                 chunks, chunk, images, svars, xvars>>

\* timeout.__enter__: signal.alarm(self.seconds) replaces any pending alarm
timeout_enter(seconds) == seconds

\* timeout.__exit__: signal.alarm(0) cancels whatever alarm is pending
timeout_exit == 0

\* with timeout(120): enter the block and open the document in parse_pdf_text
ParseTextEnter ==
  /\ ppc = "text"
  /\ extractions' = extractions \cup {"text"}
  /\ \/ /\ upload = "pdf"
        /\ \E n \in 0..MaxPages : pages' = n
        /\ page' = 0
        /\ alarm' = timeout_enter(120)
        /\ ppc' = "page"
        /\ UNCHANGED presult
     \/ /\ presult' = presult \cup {"text_error:exception"}
        /\ alarm' = timeout_exit
        /\ ppc' = "images"
        /\ UNCHANGED <<pages, page>>
  /\ UNCHANGED <<upload, space_id, temp_dir, pstatus, chunks, chunk, images,
                 svars, xvars>>

\* parse_pdf_text: enter the `with timeout(30)` of the next page
ParsePageEnter ==
  /\ ppc = "page"
  /\ page < pages
  /\ alarm' = timeout_enter(30)
  /\ ppc' = "inpage"
  /\ UNCHANGED <<page, pages, presult, upload, space_id, temp_dir, pstatus,
                 extractions, chunks, chunk, images, svars, xvars>>

\* parse_pdf_text: the page is done and its block is left; a timeout or an
\* error of the page is caught and recorded as a marker in the text
ParsePage ==
  /\ ppc = "inpage"
  /\ page' = page + 1
  /\ alarm' = timeout_exit
  /\ ppc' = "page"
  /\ \/ UNCHANGED presult
     \/ presult' = presult \cup {"page_marker"}
  /\ UNCHANGED <<pages, upload, space_id, temp_dir, pstatus, extractions,
                 chunks, chunk, images, svars, xvars>>

\* the alarm of the enclosing block fires between pages: TimeoutError leaves
\* parse_pdf_text and is recorded by parse()
ParseTextTimeout ==
  /\ ppc = "page"
  /\ alarm # 0
  /\ presult' = presult \cup {"text_error:timeout"}
  /\ alarm' = timeout_exit
  /\ ppc' = "images"
  /\ UNCHANGED <<pages, page, upload, space_id, temp_dir, pstatus,
                 extractions, chunks, chunk, images, svars, xvars>>

\* parse_pdf_text returns the joined text; the timeout(120) block is left
ParseTextExit ==
  /\ ppc = "page"
  /\ page = pages
  /\ presult' = presult \cup {"text"}
  /\ alarm' = timeout_exit
  /\ ppc' = "images"
  /\ UNCHANGED <<pages, page, upload, space_id, temp_dir, pstatus,
                 extractions, chunks, chunk, images, svars, xvars>>

\* range(0, total_pages, 5): the number of chunks of a document
ChunksOf(total_pages) == (total_pages + 4) \div 5

\* with timeout(180): enter the block and open the document in
\* extract_images_from_pdf; a failure to open is recorded by parse()
ParseImages ==
  /\ ppc = "images"
  /\ extractions' = extractions \cup {"images"}
  /\ \/ /\ \E n \in 0..MaxPages : chunks' = ChunksOf(n)
        /\ chunk' = 0
        /\ images' = FALSE
        /\ alarm' = timeout_enter(180)
        /\ ppc' = "chunk"
        /\ UNCHANGED <<presult, pstatus>>
     \/ /\ presult' = presult \cup {"image_error:exception"}
        /\ alarm' = timeout_exit
        /\ ParseReturn(200)
        /\ UNCHANGED <<chunks, chunk, images>>
  /\ UNCHANGED <<upload, space_id, temp_dir, pages, page, svars, xvars>>

\* extract_images_from_pdf: enter the `with timeout(30)` of the next chunk
ParseChunkEnter ==
  /\ ppc = "chunk"
  /\ chunk < chunks
  /\ alarm' = timeout_enter(30)
  /\ ppc' = "inchunk"
  /\ UNCHANGED <<chunk, chunks, images, presult, upload, space_id, temp_dir,
                 pstatus, extractions, pages, page, svars, xvars>>

\* extract_images_from_pdf: the chunk is done (it saved images or not) or
\* its timeout was caught, and its block is left; any other error of the
\* chunk leaves the function and is recorded by parse()
ParseChunk ==
  /\ ppc = "inchunk"
  /\ alarm' = timeout_exit
  /\ \/ /\ chunk' = chunk + 1
        /\ ppc' = "chunk"
        /\ \/ images' = TRUE
           \/ UNCHANGED images
        /\ UNCHANGED <<presult, pstatus>>
     \/ /\ presult' = presult \cup {"image_error:exception"}
        /\ ParseReturn(200)
        /\ UNCHANGED <<chunk, images>>
  /\ UNCHANGED <<chunks, upload, space_id, temp_dir, extractions, pages,
                 page, svars, xvars>>

\* the alarm of the enclosing block fires between chunks: TimeoutError
\* leaves extract_images_from_pdf and is recorded by parse()
ParseImagesTimeout ==
  /\ ppc = "chunk"
  /\ alarm # 0
  /\ presult' = presult \cup {"image_error:timeout"}
  /\ alarm' = timeout_exit
  /\ ParseReturn(200)
  /\ UNCHANGED <<chunks, chunk, images, upload, space_id, temp_dir,
                 extractions, pages, page, svars, xvars>>

\* extract_images_from_pdf returns image_paths: with images the upload
\* follows inside the timeout(180) block, without the block is left
ParseImagesExit ==
  /\ ppc = "chunk"
  /\ chunk = chunks
  /\ IF images
     THEN ppc' = "upload" /\ UNCHANGED <<pstatus, alarm>>
     ELSE ParseReturn(200) /\ alarm' = timeout_exit
  /\ UNCHANGED <<chunks, chunk, images, presult, upload, space_id, temp_dir,
                 extractions, pages, page, svars, xvars>>

\* send_images_to_rails(image_paths, space_id); the timeout(180) block is left
ParseUpload ==
  /\ ppc = "upload"
  /\ extractions' = extractions \cup {"upload"}
  /\ \/ presult' = presult \cup {"image_upload_result"}
     \/ presult' = presult \cup {"image_upload_result:error"}
     \/ presult' = presult \cup {"image_error:exception"}
  /\ alarm' = timeout_exit
  /\ ParseReturn(200)
  /\ UNCHANGED <<upload, space_id, temp_dir, pages, page, chunks, chunk,
                 images, svars, xvars>>

\* finally: shutil.rmtree(temp_dir, ignore_errors=True); then the response
ParseCleanup ==
  /\ ppc = "cleanup"
  /\ temp_dir' = "removed"
  /\ ppc' = "done"
  /\ UNCHANGED <<upload, space_id, presult, pstatus, extractions, pages, page,
                 alarm, chunks, chunk, images, svars, xvars>>

NextParse ==
  \/ ParseValidate
  \/ ParseSave
  \/ ParseTextEnter
  \/ ParsePageEnter
  \/ ParsePage
  \/ ParseTextTimeout
  \/ ParseTextExit
  \/ ParseImages
  \/ ParseChunkEnter
  \/ ParseChunk
  \/ ParseImagesTimeout
  \/ ParseImagesExit
  \/ ParseUpload
  \/ ParseCleanup

SpecParse == Init /\ [][NextParse]_vars

(* ---- clean_html_response and the quality check on their own ---- *)
InitExtract ==
  /\ active = {1}
  /\ Fresh
  /\ xpc = "input"
  /\ xdoc \in Docs
  /\ xrecord = NoRecord
  /\ xdegraded = FALSE
  /\ tpc = "none"
  /\ ttext = <<>>
  /\ tcontent = <<>>

\* cleaned_data = clean_html_response(html_content)
CleanHtml ==
  /\ xpc = "input"
  /\ xrecord' = CleanedRecord(xdoc)
  /\ xpc' = "cleaned"
  /\ UNCHANGED <<xdoc, xdegraded, tpc, ttext, tcontent, svars, pvars>>

\* the orchestrator's test on cleaned_data["content"]
QualityCheck ==
  /\ xpc = "cleaned"
  /\ xdegraded' = Degraded(xrecord.content)
  /\ xpc' = "checked"
  /\ UNCHANGED <<xdoc, xrecord, tpc, ttext, tcontent, svars, pvars>>

NextExtract ==
  \/ CleanHtml
  \/ QualityCheck

SpecExtract == InitExtract /\ [][NextExtract]_vars

(* ---- the clean-up of content_text on its own ---- *)
InitText ==
  /\ active = {1}
  /\ Fresh
  /\ xpc = "none"
  /\ xdoc = NoDoc
  /\ xrecord = NoRecord
  /\ xdegraded = FALSE
  /\ tpc = "input"
  /\ ttext \in Texts
  /\ tcontent = <<>>

\* split into sentences, drop the short ones and those with a term, rejoin
FilterStep ==
  /\ tpc = "input"
  /\ tcontent' = FilterText(ttext)
  /\ tpc' = "filtered"
  /\ UNCHANGED <<ttext, xpc, xdoc, xrecord, xdegraded, svars, pvars>>

\* cut at the property marker, normalise the whitespace, return
NormalizeStep ==
  /\ tpc = "filtered"
  /\ tcontent' = NormalizeWhitespace(TruncateAtProperty(tcontent))
  /\ tpc' = "returned"
  /\ UNCHANGED <<ttext, xpc, xdoc, xrecord, xdegraded, svars, pvars>>

NextText ==
  \/ FilterStep
  \/ NormalizeStep

SpecText == InitText /\ [][NextText]_vars

(* ======================= properties ======================= *)
InFlight(r) == pc[r] \notin {"idle", "done"}

\* C1: once scrape_with_playwright has returned (pc "returned") or the
\* request has been answered, the browser it launched is not open any more,
\* on the normal path, on both early returns and on every exception path.
C1_BrowserClosedOnExit ==
  \A r \in Workers : pc[r] \in {"returned", "done"} => browser[r] # "open"

\* C1 witness: the coroutine has returned {error} for a navigation that
\* raised after a successful launch, and the browser is closed.
C1_Witness ==
  \E r \in Workers :
    pc[r] = "returned" /\ result[r] = "error" /\ cause[r] = "goto"
      /\ browser[r] = "closed"

\* C2: a timeout of the network-idle wait after a successful navigation never
\* ends the request with an {error} result.
C2_NetIdleTimeoutTolerated ==
  \A r \in Workers : ~(result[r] = "error" /\ cause[r] = "netidle")

\* C3: a failure of the fallback pass (screenshot or in-page extraction)
\* never turns the request into an {error} result: once a fallback pass was
\* started, what the coroutine returns is the data of the first pass.
C3_FallbackFailureKeepsFirstPass ==
  \A r \in Workers :
    fallbacks[r] > 0 /\ pc[r] \in {"finally", "returned"} => result[r] = "data"

C5_AcquisitionFailureIs500 ==
  \A r \in Workers :
    pc[r] = "done" /\ result[r] = "error" => status[r] = 500

\* C6: when the permission check failed in any way (robots.txt could not be
\* fetched, or the check itself raised), no acquisition is started for the
\* request: no coroutine runs and no browser is launched.
C6_FailClosed ==
  \A r \in Workers :
    robots[r] \in {"fetch_failed", "raised"}
      => browser[r] = "none" /\ result[r] = "none"
           /\ pc[r] \notin {"launch", "setup", "goto"}

C8_NonPdfRejected ==
  upload \in {"missing", "not_pdf"} \/ ~space_id
    => extractions = {} /\ (ppc = "done" => pstatus = 400)

\* C9: when /parse has answered, the temporary directory it created has been
\* removed, whatever the exit path (200, 504 or 500).
C9_TempDirRemoved ==
  ppc = "done" => temp_dir # "exists"

\* C9 witness: the file save timed out, the request was answered 504 and the
\* directory is gone.
C9_Witness ==
  ppc = "done" /\ pstatus = 504 /\ temp_dir = "removed"

\* C10: no file is written by one in-flight scrape and by another: the
\* screenshot a request in flight has written is still its own.
C10_NoSharedWrite ==
  \A r \in Workers : InFlight(r) /\ shot[r] => cookie_page = r

\* the sentences of the content that clean_html_response returns
ContentSentences(html) == IF html # <<>> THEN FilterSentences(html) ELSE html

TermLen(t) == IF t = "cookie" THEN 6 ELSE 4

\* a policy-vocabulary term lies in the first 100 characters of the content
Term100(ss) ==
  \E i \in 1..Len(ss) :
    ss[i].term # "none" /\ Offset(ss, i) + TermLen(ss[i].term) <= 100

\* C11: for every document, the record that clean_html_response returns has
\* a title and a description that are strings (the content always is one),
\* also when there is no h1 and the title element is empty or has nested
\* markup.
C11_RecordOfStrings ==
  xpc \in {"cleaned", "checked"}
    => xrecord.title.type = "str" /\ xrecord.description.type = "str"

\* C12: the quality check judges a first pass degraded exactly when a policy
\* term lies in the first 100 characters of the content or the content is
\* shorter than 200 characters, empty content included.
C12_DegradedIffTermOrShort ==
  xpc = "checked"
    => (xdegraded <=> (Term100(ContentSentences(xdoc.text))
                         \/ xrecord.content.len < 200))

\* sample k differs by less than 100 from sample k - 1
Close(s, k) == Abs(s[k] - s[k - 1]) < 100

\* check k is stable: sample k differs by less than 100 from the sample
\* before it, the first sample from 0
StableAt(s, k) == Abs(s[k] - (IF k = 1 THEN 0 ELSE s[k - 1])) < 100

\* C13 (as claimed): the loop takes at most 5 samples and ends at the second
\* of the first two consecutive samples that differ by less than 100; without
\* such a pair it takes all 5 samples.
C13_StopsAtSecondCloseSample ==
  \A r \in Workers :
    pc[r] = "capture" =>
      LET s == samples[r]  n == Len(samples[r]) IN
      /\ n \in 1..5
      /\ \A k \in 2..(n - 1) : ~Close(s, k)
      /\ n < 5 => n >= 2 /\ Close(s, n)

\* C13 (amended): the loop takes at most 5 samples and ends at the first
\* sample that completes two consecutive stable checks, a check being stable
\* when the sample differs by less than 100 from the previous one (from 0
\* for the first sample); without two such checks it takes all 5 samples.
C13_StopsAfterTwoStableChecks ==
  \A r \in Workers :
    /\ Len(samples[r]) <= 5
    /\ pc[r] = "stabilize" => Len(samples[r]) < 5
    /\ pc[r] = "capture" =>
         LET s == samples[r]  n == Len(samples[r]) IN
         /\ n \in 1..5
         /\ \A k \in 2..(n - 1) : ~(StableAt(s, k) /\ StableAt(s, k - 1))
         /\ n < 5 => n >= 2 /\ StableAt(s, n) /\ StableAt(s, n - 1)

\* C13 witness: three equal samples of 100: the second is close to the first
\* but the loop only ends at the third.
C13_Witness ==
  \E r \in Workers : pc[r] = "capture" /\ samples[r] = <<100, 100, 100>>

\* C14: the content that clean_html_response returns contains no policy
\* term, in any letter case: the sentence filter leaves none, and neither the
\* cut at the property marker nor the whitespace normalisation creates one;
\* so "cookie" is never found in the first 100 characters of the content.
C14_NoPolicyTermInContent ==
  tpc \in {"filtered", "returned"}
    => ~HasTerm(Lower(tcontent)) /\ ~CookieInFirst100(tcontent)

\* C14 witness: the selected text had a sentence with the term in upper
\* case, and content without it was returned.
C14_Witness ==
  /\ tpc = "returned"
  /\ \E i \in 1..Len(ttext) : ttext[i] = "COOKIE"
  /\ tcontent # <<>>

\* C15: while the body of an outer timeout block of /parse runs (between
\* pages of the text extraction, between chunks of the image extraction and
\* during the upload), a deadline is still armed, also after an inner
\* timeout block has been entered and left.
C15_OuterDeadlineStaysArmed ==
  ppc \in {"page", "chunk", "upload"} => alarm # 0

TypeOK ==
  /\ \A r \in Workers : browser[r] \in {"none", "open", "closed"}
  /\ \A r \in Workers : status[r] \in {0, 200, 400, 403, 500}
  /\ \A r \in Workers : fallbacks[r] \in 0..1
  /\ cookie_page \in 0..NumWorkers
  /\ alarm \in {0, 30, 120, 180}
  /\ page \in 0..pages
  /\ chunk \in 0..chunks
  /\ images \in BOOLEAN
====
